---- MODULE Spec2Model ----
(***************************************************************************)
(* RISWIS: retrieval, tier-weighted ranking and the run log, with the      *)
(* integrity check that binds the embeddings cache to the manifest.        *)
(*                                                                         *)
(*   src/src/main.py                      the ranking run                  *)
(*   src/src/retrieval/doc_embeddings.py  the precompute (cache writer)    *)
(*   src/src/retrieval/similarity.py      build_candidates                 *)
(***************************************************************************)
EXTENDS Integers, Sequences, FiniteSets, TLC

(***************************************************************************)
(* Bounds of the model.                                                    *)
(***************************************************************************)
\* longest top-level list of a JSON text (documents of a manifest)
MaxDocs == 2
\* whitespace layouts a JSON text can be written in: 0..MaxWs
MaxWs == 1
\* largest configured top_k
MaxTopK == 2

(***************************************************************************)
(* JSON texts and json.load / json.dumps.                                  *)
(*                                                                         *)
(* A JSON text is a top-level list of objects, as manifest.json is:        *)
(*   [ws |-> its whitespace layout, items |-> the objects in file order],  *)
(* an object being the sequence of its <<key, value>> pairs as written     *)
(* (a key may be written twice).  A parsed object is a Python dict: pairs  *)
(* with distinct keys, in insertion order.                                 *)
(***************************************************************************)
\* the order of str keys that sort_keys=True sorts by
KeyRank(k) ==
  CASE k = "content" -> 1
    [] k = "doc_id"  -> 2
    [] k = "tier"    -> 3

\* d[k] = v on a Python dict: a new key goes last, a known key keeps its place
DictSet(d, k, v) ==
  IF \E i \in DOMAIN d : d[i][1] = k
    THEN [i \in DOMAIN d |-> IF d[i][1] = k THEN <<k, v>> ELSE d[i]]
    ELSE Append(d, <<k, v>>)

RECURSIVE ParseObject(_)
\* one JSON object decoded: the pairs are stored left to right, last one wins
ParseObject(pairs) ==
  IF pairs = <<>> THEN <<>>
  ELSE LET n == Len(pairs)
       IN  DictSet(ParseObject(SubSeq(pairs, 1, n - 1)), pairs[n][1], pairs[n][2])

\* json.load / json.loads: whitespace is dropped, every object decoded
JsonLoad(text) == [i \in DOMAIN text.items |-> ParseObject(text.items[i])]

\* k in d
HasKey(d, k) == \E i \in DOMAIN d : d[i][1] = k

\* d[k] for a key the dict holds
DictGet(d, k) == d[CHOOSE i \in DOMAIN d : d[i][1] = k][2]

\* == on two dicts: the same keys with the same values, whatever the order
DictEq(d1, d2) == {d1[i] : i \in DOMAIN d1} = {d2[i] : i \in DOMAIN d2}

\* == on two parsed JSON values (lists of dicts): lists compare in order
JsonEq(a, b) ==
  /\ Len(a) = Len(b)
  /\ \A i \in DOMAIN a : DictEq(a[i], b[i])

RECURSIVE InsertByKey(_, _)
InsertByKey(p, s) ==
  IF s = <<>> THEN <<p>>
  ELSE IF KeyRank(p[1]) < KeyRank(Head(s)[1]) THEN <<p>> \o s
  ELSE <<Head(s)>> \o InsertByKey(p, Tail(s))

RECURSIVE SortKeys(_)
\* the items of a dict in sorted key order (sort_keys=True)
SortKeys(d) ==
  IF d = <<>> THEN <<>>
  ELSE InsertByKey(d[Len(d)], SortKeys(SubSeq(d, 1, Len(d) - 1)))

\* the one layout json.dumps writes with its default separators
DumpsWs == 0

\* json.dumps(obj, ensure_ascii=False, sort_keys=sort_keys)
JsonDumps(obj, sort_keys) ==
  [ws    |-> DumpsWs,
   items |-> [i \in DOMAIN obj |-> IF sort_keys THEN SortKeys(obj[i]) ELSE obj[i]]]

\* hashlib.sha256(s.encode("utf-8")).hexdigest(): injective on the text hashed
Sha256(text) == [kind |-> "hex", of |-> text]

\* what a dict's .get("source_manifest_hash") gives when the key is absent,
\* None, or "": the three values `not expected` is true of
NoHash == {[kind |-> k, of |-> [ws |-> 0, items |-> <<>>]] : k \in {"absent", "null", "empty"}}

(***************************************************************************)
(* The embedding model and the documents.                                  *)
(***************************************************************************)
\* the query main falls back to when no argument is given
DefaultQuery == "long horizon drift evaluation in adaptive systems"

\* LocalEmbedder.embed on one text: a fixed function of the text (the model's
\* weights do not change); the vectors are in fixed point, dimension 2
Embed(text) ==
  CASE text = "a" -> <<2, 0>>
    [] text = "b" -> <<0, 2>>
    [] text = DefaultQuery -> <<2, 1>>
    [] text = "tier policy" -> <<1, 2>>

\* sha256_text: injective on the content
sha256_text(content) == <<"sha256", content>>

\* doc_vecs @ q, one row
Dot(u, v) == u[1] * v[1] + u[2] * v[2]

\* a file that is not there
Absent == [exists |-> FALSE, data |-> <<>>]
File(d) == [exists |-> TRUE, data |-> d]

VARIABLES
  manifest,             \* data/manifest.json: a JSON text
  sample_manifest,      \* data/sample_manifest.json
  settings,             \* config/settings.json, parsed: top_k, tier_multipliers
  doc_embeddings,       \* data/doc_embeddings.npz: the rows of "vectors"
  doc_meta,             \* data/doc_meta.jsonl: one record per line
  embeddings_manifest,  \* data/embeddings_manifest.json: its source_manifest_hash
  hashed_source,        \* the manifest text write_embedding_manifest last hashed
  p_pc,                 \* doc_embeddings.main: where the precompute is
  p_docs,               \* its docs (load_manifest's result)
  p_vectors,            \* its vectors
  argv,                 \* the command line of the ranking run
  pc,                   \* main.py: where the ranking run is
  manifest_path,        \* "manifest.json" or "sample_manifest.json"
  q_vec,
  cache_read,           \* what build_candidates loaded: doc_vecs and meta
  candidates,
  results,
  top_results,
  printed,              \* whether "Ranked results:" has been printed
  embedding_info,       \* None, or the loaded embeddings manifest
  verified,             \* what verify_embeddings_match_manifest did in this run
  err,                  \* the exception that ended the run
  log_file,             \* logs/riswis_run_<timestamp>.log of this run
  digests               \* the hashes computed by direct calls of the two
                        \* sha256_manifest_json functions, by <<module, path>>

disk == <<manifest, sample_manifest, settings, doc_embeddings, doc_meta,
          embeddings_manifest, hashed_source>>
pre  == <<p_pc, p_docs, p_vectors>>
run  == <<argv, pc, manifest_path, q_vec, cache_read, candidates, results,
          top_results, printed, embedding_info, verified, err, log_file>>
vars == <<disk, pre, run, digests>>

EmptyText == [ws |-> 0, items |-> <<>>]
NullHash == [kind |-> "null", of |-> EmptyText]

(***************************************************************************)
(* doc_embeddings.py: the precompute.                                      *)
(***************************************************************************)
\* a variant that hashes the file's text as it is, without canonicalizing
doc_sha256_raw_text(text) == Sha256(text)

\* doc_embeddings.sha256_manifest_json on the text of the file at `path`
doc_sha256_manifest_json(text) == Sha256(JsonDumps(JsonLoad(text), TRUE))

\* load_manifest's checks: a non-empty list, every doc with the three keys
ValidDocs(docs) ==
  /\ Len(docs) > 0
  /\ \A i \in DOMAIN docs : \A k \in {"doc_id", "tier", "content"} : HasKey(docs[i], k)

\* embedder.embed(texts): one row per document, from its content
EmbedDocs(docs) == [i \in DOMAIN docs |-> Embed(DictGet(docs[i], "content"))]

\* the metadata records write_embeddings_and_meta writes, one per doc ("source"
\* and "title", which no reader uses, are left out)
MetaRecords(docs) ==
  [i \in DOMAIN docs |->
     [row_index    |-> i - 1,
      doc_id       |-> DictGet(docs[i], "doc_id"),
      tier         |-> DictGet(docs[i], "tier"),
      content_hash |-> sha256_text(DictGet(docs[i], "content"))]]

\* main(): load_manifest, then embed the contents
PLoad ==
  /\ p_pc = "idle"
  /\ IF manifest.exists /\ ValidDocs(JsonLoad(manifest.data))
       THEN /\ p_pc' = "loaded"
            /\ p_docs' = JsonLoad(manifest.data)
            /\ p_vectors' = EmbedDocs(JsonLoad(manifest.data))
       ELSE \* FileNotFoundError or ValueError: the precompute ends
            UNCHANGED pre
  /\ UNCHANGED <<disk, run, digests>>

\* write_embeddings_and_meta(docs, vectors): the vectors, then the metadata
PWriteEmbeddingsAndMeta ==
  /\ p_pc = "loaded"
  /\ doc_embeddings' = File(p_vectors)
  /\ doc_meta' = File(MetaRecords(p_docs))
  /\ p_pc' = "cache_saved"
  /\ UNCHANGED <<manifest, sample_manifest, settings,
                 embeddings_manifest, hashed_source, p_docs, p_vectors, run, digests>>

\* write_embedding_manifest: hash the manifest file as it is now, write the record
PWriteManifest ==
  /\ p_pc = "cache_saved"
  /\ IF manifest.exists
       THEN /\ embeddings_manifest' = File(doc_sha256_manifest_json(manifest.data))
            /\ hashed_source' = manifest.data
       ELSE UNCHANGED <<embeddings_manifest, hashed_source>>
  /\ p_pc' = "idle"
  /\ p_docs' = <<>>
  /\ p_vectors' = <<>>
  /\ UNCHANGED <<manifest, sample_manifest, settings, doc_embeddings, doc_meta, run, digests>>

\* the precompute is stopped (killed, or an I/O error) between two writes
PStop ==
  /\ p_pc # "idle"
  /\ p_pc' = "idle"
  /\ p_docs' = <<>>
  /\ p_vectors' = <<>>
  /\ UNCHANGED <<disk, run, digests>>

(***************************************************************************)
(* similarity.py and main.py: the ranking run.                             *)
(***************************************************************************)
NoErr == [type |-> "none", what |-> "", tier |-> "", expected |-> NullHash, current |-> NullHash]
Raise(type, what) == [NoErr EXCEPT !.type = type, !.what = what]

NotVerified == [outcome |-> "none", computed |-> FALSE, current |-> NullHash, source |-> EmptyText]
None == [loaded |-> FALSE, source_manifest_hash |-> NullHash]
NoCache == [vectors |-> <<>>, meta |-> <<>>]

\* a variant that leaves out sort_keys=True
sha256_manifest_json_unsorted(text) == Sha256(JsonDumps(JsonLoad(text), FALSE))

\* main.sha256_manifest_json on the text of the file at `path`
sha256_manifest_json(text) == Sha256(JsonDumps(JsonLoad(text), TRUE))

\* str.strip() on the argument
Strip(a) == IF a = " " THEN "" ELSE a

\* the file main's manifest_path names
ManifestInUse == IF manifest_path = "manifest.json" THEN manifest ELSE sample_manifest

\* lines 111-136: choose the manifest, load the config, embed the query
Start ==
  /\ pc = "idle"
  /\ manifest_path' = IF manifest.exists THEN "manifest.json" ELSE "sample_manifest.json"
  /\ LET query == IF Len(argv) > 0 THEN Strip(argv[1]) ELSE DefaultQuery
     IN  IF query = ""
           THEN /\ err' = Raise("ValueError", "Query cannot be empty.")
                /\ pc' = "aborted"
                /\ q_vec' = <<>>
           ELSE /\ err' = NoErr
                /\ pc' = "embedded"
                /\ q_vec' = Embed(query)
  /\ cache_read' = NoCache
  /\ candidates' = <<>>
  /\ results' = <<>>
  /\ top_results' = <<>>
  /\ printed' = FALSE
  /\ embedding_info' = None
  /\ verified' = NotVerified
  /\ log_file' = Absent
  /\ UNCHANGED <<digests, disk, pre, argv>>

\* cosine_raw_sim: (doc_vecs @ q), one score per row
cosine_raw_sim(query_vec, doc_vecs) == [i \in DOMAIN doc_vecs |-> Dot(doc_vecs[i], query_vec)]

\* a variant that scores every candidate with the first row
CandidatesOf_first_row(query_vec, doc_vecs, meta) ==
  LET sims == cosine_raw_sim(query_vec, doc_vecs)
  IN  [i \in DOMAIN meta |->
         [doc_id |-> meta[i].doc_id, tier |-> meta[i].tier, raw_sim |-> sims[1]]]

\* the candidate list build_candidates returns for the loaded vectors and meta
CandidatesOf(query_vec, doc_vecs, meta) ==
  LET sims == cosine_raw_sim(query_vec, doc_vecs)
  IN  [i \in DOMAIN meta |->
         [doc_id |-> meta[i].doc_id, tier |-> meta[i].tier, raw_sim |-> sims[i]]]

\* line 138: build_candidates(q_vec)
BuildCandidates ==
  /\ pc = "embedded"
  /\ IF ~doc_embeddings.exists
       THEN /\ err' = Raise("FileNotFoundError", "Missing embeddings file")
            /\ pc' = "aborted"
            /\ UNCHANGED <<cache_read, candidates>>
     ELSE IF ~doc_meta.exists
       THEN /\ err' = Raise("FileNotFoundError", "Missing metadata file")
            /\ pc' = "aborted"
            /\ UNCHANGED <<cache_read, candidates>>
     ELSE /\ cache_read' = [vectors |-> doc_embeddings.data, meta |-> doc_meta.data]
          /\ IF Len(doc_meta.data) # Len(doc_embeddings.data)
               THEN /\ err' = Raise("ValueError", "Metadata row count does not match embedding row count.")
                    /\ pc' = "aborted"
                    /\ UNCHANGED candidates
               ELSE /\ candidates' = CandidatesOf(q_vec, doc_embeddings.data, doc_meta.data)
                    /\ pc' = "scoring"
                    /\ UNCHANGED err
  /\ UNCHANGED <<digests, disk, pre, argv, manifest_path, q_vec, results, top_results,
                 printed, embedding_info, verified, log_file>>

\* a variant that adds the multiplier instead of multiplying by it
ResultOf_sum(c, tier_multipliers) ==
  [doc_id         |-> c.doc_id,
   tier           |-> c.tier,
   similarity     |-> c.raw_sim,
   multiplier     |-> tier_multipliers[c.tier],
   weighted_score |-> c.raw_sim + tier_multipliers[c.tier]]

\* the result main builds from one candidate
ResultOf(c, tier_multipliers) ==
  [doc_id         |-> c.doc_id,
   tier           |-> c.tier,
   similarity     |-> c.raw_sim,
   multiplier     |-> tier_multipliers[c.tier],
   weighted_score |-> c.raw_sim * tier_multipliers[c.tier]]

\* a variant that gives an unknown tier the multiplier 1 instead of raising
ScoreCandidate_default_multiplier ==
  /\ pc = "scoring"
  /\ Len(results) < Len(candidates)
  /\ LET c == candidates[Len(results) + 1]
         m == IF c.tier \in DOMAIN settings.tier_multipliers
                THEN settings.tier_multipliers[c.tier] ELSE 1
     IN  results' = Append(results,
                           [doc_id |-> c.doc_id, tier |-> c.tier, similarity |-> c.raw_sim,
                            multiplier |-> m, weighted_score |-> c.raw_sim * m])
  /\ UNCHANGED <<digests, disk, pre, argv, manifest_path, q_vec, cache_read, candidates,
                 top_results, printed, embedding_info, verified, log_file, err, pc>>

\* lines 140-159: one turn of `for c in candidates`
ScoreCandidate ==
  /\ pc = "scoring"
  /\ Len(results) < Len(candidates)
  /\ LET c == candidates[Len(results) + 1]
     IN  IF c.tier \notin DOMAIN settings.tier_multipliers
           THEN /\ err' = [Raise("ValueError", "Unknown tier in manifest.") EXCEPT !.tier = c.tier]
                /\ pc' = "aborted"
                /\ UNCHANGED results
           ELSE /\ results' = Append(results, ResultOf(c, settings.tier_multipliers))
                /\ UNCHANGED <<err, pc>>
  /\ UNCHANGED <<digests, disk, pre, argv, manifest_path, q_vec, cache_read, candidates,
                 top_results, printed, embedding_info, verified, log_file>>

RECURSIVE rank_results_ascending(_)
\* a variant that leaves out reverse=True
rank_results_ascending(rs) ==
  IF rs = <<>> THEN <<>>
  ELSE LET rest == rank_results_ascending(SubSeq(rs, 1, Len(rs) - 1))
           x == rs[Len(rs)]
           below == SelectSeq(rest, LAMBDA y : y.weighted_score <= x.weighted_score)
           above == SelectSeq(rest, LAMBDA y : y.weighted_score > x.weighted_score)
       IN  below \o <<x>> \o above

RECURSIVE InsertByScore(_, _)
\* x goes after every element whose score is not below its own (stable)
InsertByScore(x, s) ==
  IF s = <<>> THEN <<x>>
  ELSE IF x.weighted_score > Head(s).weighted_score THEN <<x>> \o s
  ELSE <<Head(s)>> \o InsertByScore(x, Tail(s))

RECURSIVE rank_results(_)
\* sorted(results, key=weighted_score, reverse=True): descending and stable
rank_results(rs) ==
  IF rs = <<>> THEN <<>>
  ELSE InsertByScore(rs[Len(rs)], rank_results(SubSeq(rs, 1, Len(rs) - 1)))

\* s[:k]
SliceTo(s, k) ==
  IF k >= 0 THEN SubSeq(s, 1, IF k < Len(s) THEN k ELSE Len(s))
  ELSE SubSeq(s, 1, IF Len(s) + k > 0 THEN Len(s) + k ELSE 0)

\* lines 161-173: sort, truncate to top_k, print
RankAndPrint ==
  /\ pc = "scoring"
  /\ Len(results) = Len(candidates)
  /\ results' = rank_results(results)
  /\ top_results' = SliceTo(rank_results(results), settings.top_k)
  /\ printed' = TRUE
  /\ pc' = "printed"
  /\ UNCHANGED <<digests, disk, pre, argv, manifest_path, q_vec, cache_read, candidates,
                 embedding_info, verified, err, log_file>>

\* a variant that tests `expected is None`
Falsy_only_none(h) == h.kind \in {"absent", "null"}

\* `not expected`
Falsy(h) == h \in NoHash

\* a variant that computes the current hash and never compares it
VerifyOutcome_never_mismatch(expected, file) ==
  IF Falsy(expected)
    THEN [NotVerified EXCEPT !.outcome = "missing_hash"]
  ELSE IF ~file.exists
    THEN [NotVerified EXCEPT !.outcome = "no_manifest"]
  ELSE [outcome  |-> "passed",
        computed |-> TRUE,
        current  |-> Sha256(JsonDumps(JsonLoad(file.data), TRUE)),
        source   |-> file.data]

\* what verify_embeddings_match_manifest does with the recorded hash, given the
\* file at manifest_path: the outcome, and the hash it computed if it got there
VerifyOutcome(expected, file) ==
  IF Falsy(expected)
    THEN [NotVerified EXCEPT !.outcome = "missing_hash"]
  ELSE IF ~file.exists
    THEN [NotVerified EXCEPT !.outcome = "no_manifest"]
  ELSE [outcome  |-> IF sha256_manifest_json(file.data) # expected THEN "mismatch" ELSE "passed",
        computed |-> TRUE,
        current  |-> sha256_manifest_json(file.data),
        source   |-> file.data]

\* lines 177-181: load the embeddings manifest if it exists, and verify
Verify ==
  /\ pc = "printed"
  /\ IF ~embeddings_manifest.exists
       THEN /\ embedding_info' = None
            /\ verified' = [NotVerified EXCEPT !.outcome = "skipped"]
            /\ pc' = "verified"
            /\ UNCHANGED err
       ELSE LET info == [loaded |-> TRUE, source_manifest_hash |-> embeddings_manifest.data]
                v == VerifyOutcome(info.source_manifest_hash, ManifestInUse)
            IN  /\ embedding_info' = info
                /\ verified' = v
                /\ CASE v.outcome = "missing_hash" ->
                          /\ err' = Raise("ValueError", "Embedding manifest missing 'source_manifest_hash'.")
                          /\ pc' = "aborted"
                     [] v.outcome = "no_manifest" ->
                          /\ err' = Raise("FileNotFoundError", "manifest")
                          /\ pc' = "aborted"
                     [] v.outcome = "mismatch" ->
                          /\ err' = [Raise("RuntimeError", "Embeddings/manifest mismatch.")
                                       EXCEPT !.expected = info.source_manifest_hash,
                                              !.current = v.current]
                          /\ pc' = "aborted"
                     [] v.outcome = "passed" ->
                          /\ pc' = "verified"
                          /\ UNCHANGED err
  /\ UNCHANGED <<digests, disk, pre, argv, manifest_path, q_vec, cache_read, candidates,
                 results, top_results, printed, log_file>>

\* a variant that writes the log right after printing, before the verification
LogRun_before_verify ==
  /\ pc = "printed"
  /\ log_file' = [exists |-> TRUE,
                  data |-> [results |-> top_results, top_k |-> settings.top_k,
                            embedding_context |-> embedding_info]]
  /\ pc' = "done"
  /\ UNCHANGED <<digests, disk, pre, argv, manifest_path, q_vec, cache_read, candidates,
                 results, top_results, printed, embedding_info, verified, err>>

\* line 182: log_run(top_results, config, run_reason, embedding_info)
LogRun ==
  /\ pc = "verified"
  /\ log_file' = File([results |-> top_results,
                       top_k |-> settings.top_k,
                       embedding_context |-> embedding_info])
  /\ pc' = "done"
  /\ UNCHANGED <<digests, disk, pre, argv, manifest_path, q_vec, cache_read, candidates,
                 results, top_results, printed, embedding_info, verified, err>>

\* the process ends: after line 182, or on the uncaught exception; its
\* variables are gone, what it wrote stays
Exit ==
  /\ pc \in {"done", "aborted"}
  /\ pc' = "idle"
  /\ manifest_path' = "manifest.json"
  /\ q_vec' = <<>>
  /\ cache_read' = NoCache
  /\ candidates' = <<>>
  /\ results' = <<>>
  /\ top_results' = <<>>
  /\ printed' = FALSE
  /\ embedding_info' = None
  /\ verified' = NotVerified
  /\ err' = NoErr
  /\ log_file' = Absent
  /\ UNCHANGED <<disk, pre, argv, digests>>

(***************************************************************************)
(* The files the model draws from.                                         *)
(***************************************************************************)
\* the two orders an object's keys are written in (neither is the sorted one)
KeyOrders == {<<"doc_id", "tier", "content">>, <<"tier", "content", "doc_id">>}

\* the documents, as records
DocA == [doc_id |-> "d1", tier |-> "T1", content |-> "a"]
DocB == [doc_id |-> "d2", tier |-> "T2", content |-> "b"]
DocRecords == {DocA, DocB}

\* one document written as a JSON object with its keys in order `o`
ObjectText(d, o) == [i \in 1..3 |-> <<o[i], d[o[i]]>>]

ObjectTexts == {ObjectText(d, o) : d \in DocRecords, o \in KeyOrders}

\* the sequences over S of length 0..n
SeqsUpTo(S, n) == UNION {[1..k -> S] : k \in 0..n}

\* the manifest texts: lists of at most MaxDocs documents, in any layout
ManifestTexts == [ws : 0..MaxWs, items : SeqsUpTo(ObjectTexts, MaxDocs)]

Paths == {"manifest.json", "sample_manifest.json"}
FileAt(path) == IF path = "manifest.json" THEN manifest ELSE sample_manifest

(***************************************************************************)
(* The environment: the user edits or removes data/manifest.json.          *)
(***************************************************************************)
\* the manifests the user moves between in the whole-system model: one document,
\* the same reformatted, another document, the first with its tier changed,
\* two documents, the two reordered
Order1 == <<"doc_id", "tier", "content">>
Order2 == <<"tier", "content", "doc_id">>
EditedTexts ==
  {[ws |-> 1, items |-> <<ObjectText(DocA, Order1)>>],
   [ws |-> 0, items |-> <<ObjectText(DocA, Order2)>>],
   [ws |-> 0, items |-> <<ObjectText(DocB, Order1)>>],
   [ws |-> 1, items |-> <<ObjectText([DocA EXCEPT !.tier = "T2"], Order1)>>],
   [ws |-> 0, items |-> <<ObjectText(DocA, Order1), ObjectText(DocB, Order2)>>],
   [ws |-> 1, items |-> <<ObjectText(DocB, Order1), ObjectText(DocA, Order1)>>]}

EditManifest ==
  /\ \E t \in EditedTexts : manifest' = File(t)
  /\ UNCHANGED <<sample_manifest, settings, doc_embeddings, doc_meta,
                 embeddings_manifest, hashed_source, pre, run, digests>>

DeleteManifest ==
  /\ manifest.exists
  /\ manifest' = Absent
  /\ UNCHANGED <<sample_manifest, settings, doc_embeddings, doc_meta,
                 embeddings_manifest, hashed_source, pre, run, digests>>

(***************************************************************************)
(* Direct calls of the two hash functions on a file.                       *)
(***************************************************************************)
NoDigests == [k \in {} |-> NullHash]

MainHash(path) ==
  /\ FileAt(path).exists
  /\ <<"main", path>> \notin DOMAIN digests
  /\ digests' = digests @@ (<<"main", path>> :> sha256_manifest_json(FileAt(path).data))
  /\ UNCHANGED <<disk, pre, run>>

DocHash(path) ==
  /\ FileAt(path).exists
  /\ <<"doc_embeddings", path>> \notin DOMAIN digests
  /\ digests' = digests @@ (<<"doc_embeddings", path>> :> doc_sha256_manifest_json(FileAt(path).data))
  /\ UNCHANGED <<disk, pre, run>>

(***************************************************************************)
(* Specifications.                                                         *)
(***************************************************************************)
IdleRun ==
  /\ pc = "idle"
  /\ manifest_path = "manifest.json"
  /\ q_vec = <<>>
  /\ cache_read = NoCache
  /\ candidates = <<>>
  /\ results = <<>>
  /\ top_results = <<>>
  /\ printed = FALSE
  /\ embedding_info = None
  /\ verified = NotVerified
  /\ err = NoErr
  /\ log_file = Absent

IdlePrecompute ==
  /\ p_pc = "idle"
  /\ p_docs = <<>>
  /\ p_vectors = <<>>

\* a config that has a multiplier for every tier of the documents
DefaultSettings == [top_k |-> 1, tier_multipliers |-> [t \in {"T1", "T2"} |-> IF t = "T1" THEN 2 ELSE 1]]

\* the document list data/ starts with
FirstManifest == [ws |-> 1, items |-> <<ObjectText(DocA, Order1)>>]

\* the whole system: precomputes, manifest edits and ranking runs, from a data/
\* directory that holds the manifests and no cache yet
Init ==
  /\ manifest = File(FirstManifest)
  /\ sample_manifest = File(FirstManifest)
  /\ settings = DefaultSettings
  /\ doc_embeddings = Absent
  /\ doc_meta = Absent
  /\ embeddings_manifest = Absent
  /\ hashed_source = EmptyText
  /\ IdlePrecompute
  /\ argv = <<>>
  /\ IdleRun
  /\ digests = NoDigests

Next ==
  \/ EditManifest
  \/ DeleteManifest
  \/ PLoad
  \/ PWriteEmbeddingsAndMeta
  \/ PWriteManifest
  \/ PStop
  \/ Start
  \/ BuildCandidates
  \/ ScoreCandidate
  \/ RankAndPrint
  \/ Verify
  \/ LogRun
  \/ Exit

Spec == Init /\ [][Next]_vars

(***************************************************************************)
(* One ranking run, from any data/ directory, config and command line.     *)
(***************************************************************************)
\* the documents a cache can hold: the third one's tier is in no config
CacheDocs ==
  {<<<<"doc_id", "d1">>, <<"tier", "T1">>, <<"content", "a">>>>,
   <<<<"doc_id", "d2">>, <<"tier", "T2">>, <<"content", "b">>>>,
   <<<<"doc_id", "d3">>, <<"tier", "T3">>, <<"content", "a">>>>}

Vectors == {Embed("a"), Embed("b")}

Configs ==
  [top_k : 0..MaxTopK,
   tier_multipliers : {[t \in {"T1", "T2"} |-> IF t = "T1" THEN 2 ELSE 1],
                       [t \in {"T1", "T2"} |-> IF t = "T1" THEN 1 ELSE 3]}]

Arguments == {<<>>, <<" ">>, <<"tier policy">>}

TextA == [ws |-> 1, items |-> <<ObjectText(DocA, Order1)>>]
TextB == [ws |-> 0, items |-> <<ObjectText(DocB, Order1)>>]

InitMain ==
  /\ manifest \in {Absent, File(TextA), File(TextB)}
  /\ sample_manifest \in {Absent, File(TextA)}
  /\ settings \in Configs
  /\ doc_embeddings \in {Absent} \cup {File(v) : v \in SeqsUpTo(Vectors, MaxDocs)}
  /\ doc_meta \in {Absent} \cup {File(MetaRecords(ds)) : ds \in SeqsUpTo(CacheDocs, MaxDocs)}
  /\ embeddings_manifest \in
       {Absent} \cup {File(h) : h \in NoHash \cup {doc_sha256_manifest_json(TextA),
                                                  doc_sha256_manifest_json(TextB)}}
  /\ hashed_source = EmptyText
  /\ IdlePrecompute
  /\ argv \in Arguments
  /\ IdleRun
  /\ digests = NoDigests

NextMain ==
  \/ Start
  \/ BuildCandidates
  \/ ScoreCandidate
  \/ RankAndPrint
  \/ Verify
  \/ LogRun
  \/ Exit

SpecMain == InitMain /\ [][NextMain]_vars

(***************************************************************************)
(* write_embeddings_and_meta(docs, vectors), then build_candidates.        *)
(***************************************************************************)
InitCache ==
  /\ manifest = File(FirstManifest)
  /\ sample_manifest = Absent
  /\ settings = DefaultSettings
  /\ doc_embeddings = Absent
  /\ doc_meta = Absent
  /\ embeddings_manifest = Absent
  /\ hashed_source = EmptyText
  /\ p_pc = "loaded"
  /\ p_docs \in SeqsUpTo(CacheDocs, MaxDocs) \ {<<>>}
  /\ p_vectors \in SeqsUpTo(Vectors, MaxDocs)
  /\ argv \in {<<>>, <<"tier policy">>}
  /\ IdleRun
  /\ digests = NoDigests

NextCache ==
  \/ PWriteEmbeddingsAndMeta
  \/ Start
  \/ BuildCandidates

SpecCache == InitCache /\ [][NextCache]_vars

(***************************************************************************)
(* The two hash functions on two manifest files.                           *)
(***************************************************************************)
InitHash ==
  /\ manifest \in {File(t) : t \in ManifestTexts}
  /\ sample_manifest \in {File(t) : t \in ManifestTexts}
  /\ settings = DefaultSettings
  /\ doc_embeddings = Absent
  /\ doc_meta = Absent
  /\ embeddings_manifest = Absent
  /\ hashed_source = EmptyText
  /\ IdlePrecompute
  /\ argv = <<>>
  /\ IdleRun
  /\ digests = NoDigests

NextHash ==
  \/ \E path \in Paths : MainHash(path)
  \/ \E path \in Paths : DocHash(path)

SpecHash == InitHash /\ [][NextHash]_vars

(***************************************************************************)
(* The properties of spec.md, by claim.                                    *)
(***************************************************************************)
Min(a, b) == IF a < b THEN a ELSE b

\* the hash of `module`'s function for both files, once both are computed
BothHashed(module) ==
  /\ <<module, "manifest.json">> \in DOMAIN digests
  /\ <<module, "sample_manifest.json">> \in DOMAIN digests

\* C1: two manifest files that parse to the same JSON value (they differ only
\* in the order of keys inside objects and in whitespace) get the same hash,
\* from main's sha256_manifest_json and from doc_embeddings' one.
C1_HashStableUnderFormatting ==
  \A module \in {"main", "doc_embeddings"} :
    (/\ BothHashed(module)
     /\ JsonEq(JsonLoad(manifest.data), JsonLoad(sample_manifest.data)))
    => digests[<<module, "manifest.json">>] = digests[<<module, "sample_manifest.json">>]

\* two files with the same documents, the keys in another order and another
\* whitespace layout, both hashed by both functions
C1_Witness ==
  /\ BothHashed("main")
  /\ BothHashed("doc_embeddings")
  /\ Len(manifest.data.items) = 2
  /\ manifest.data.ws # sample_manifest.data.ws
  /\ \A i \in DOMAIN manifest.data.items :
       /\ i \in DOMAIN sample_manifest.data.items
       /\ manifest.data.items[i] # sample_manifest.data.items[i]
  /\ JsonEq(JsonLoad(manifest.data), JsonLoad(sample_manifest.data))

\* the recorded hash differs from the hash of the manifest in use
RecordedHashDiffers ==
  /\ embeddings_manifest.exists
  /\ ~Falsy(embeddings_manifest.data)
  /\ ManifestInUse.exists
  /\ sha256_manifest_json(ManifestInUse.data) # embeddings_manifest.data

\* C2: in a run where data/embeddings_manifest.json exists and its recorded
\* source_manifest_hash differs from the hash freshly computed over the manifest
\* in use, the run aborts with a RuntimeError naming both hashes, and no log
\* is written in that run.
C2_MismatchAbortsBeforeLog ==
  /\ (pc # "idle" /\ RecordedHashDiffers) => ~log_file.exists
  /\ (verified.computed /\ RecordedHashDiffers) =>
       /\ pc = "aborted"
       /\ err.type = "RuntimeError"
       /\ err.expected = embeddings_manifest.data
       /\ err.current = sha256_manifest_json(ManifestInUse.data)
       /\ err.expected # err.current

C2_Witness ==
  /\ pc = "aborted"
  /\ err.type = "RuntimeError"
  /\ printed
  /\ Len(top_results) > 0
  /\ RecordedHashDiffers

\* C3 as stated: every run that writes a log has first verified the recorded
\* hash against the current manifest hash and found them equal, whatever files
\* are present or absent under data/.
C3_LogOnlyAfterVerification ==
  log_file.exists => verified.outcome = "passed"

\* C3 as amended: a run that writes a log while data/embeddings_manifest.json
\* exists has first verified the recorded hash and found it equal to the hash
\* of the manifest in use; when that file is absent the log is written with
\* no verification at all.
C3_LogAfterVerificationIfManifestExists ==
  log_file.exists =>
    IF embeddings_manifest.exists
      THEN /\ verified.outcome = "passed"
           /\ verified.current = embeddings_manifest.data
           /\ embedding_info.loaded
      ELSE /\ verified.outcome = "skipped"
           /\ ~embedding_info.loaded

C3_Witness ==
  /\ log_file.exists
  /\ embeddings_manifest.exists
  /\ verified.outcome = "passed"
  /\ Len(log_file.data.results) > 0

\* C4: whenever verification passes in a run, the vectors and metadata that
\* build_candidates read in that run are the cache a precompute writes for
\* exactly the document list of the manifest the run verified against.
C4_PassedMeansCacheFromManifest ==
  verified.outcome = "passed" =>
    LET docs == JsonLoad(verified.source)
    IN  /\ ValidDocs(docs)
        /\ cache_read.vectors = EmbedDocs(docs)
        /\ cache_read.meta = MetaRecords(docs)

\* C5: a run that gets to compare hashes passes verification if and only if
\* the manifest it uses parses to the same JSON value as the manifest the last
\* complete precompute recorded the hash of.
C5_StalenessExact ==
  [][(/\ pc = "printed"
      /\ embeddings_manifest.exists
      /\ ManifestInUse.exists
      /\ pc' # "printed")
     => /\ verified'.outcome \in {"passed", "mismatch"}
        /\ (verified'.outcome = "passed")
             <=> JsonEq(JsonLoad(ManifestInUse.data), JsonLoad(hashed_source))]_vars

\* verification passed on a manifest that was reformatted after the precompute
C5_Witness ==
  /\ verified.outcome = "passed"
  /\ embeddings_manifest.exists
  /\ embedding_info.source_manifest_hash = embeddings_manifest.data
  /\ verified.source # hashed_source
  /\ verified.source.items # hashed_source.items

\* the weighted score main is to give candidate c
ScoreOf(c) == c.raw_sim * settings.tier_multipliers[c.tier]

\* the ways of picking one candidate per place of a list of n results
Picks(n) == {f \in [1..n -> DOMAIN candidates] : \A i, j \in 1..n : i # j => f[i] # f[j]}

\* C6: the output of a run is the top-K by weighted score: top_results is in
\* non-increasing weighted_score order, holds exactly min(top_k, N) results for
\* N candidates, each the result of a candidate of its own, and no candidate
\* left out scores strictly higher than a result that is included.
C6_TopKByWeightedScore ==
  printed =>
    /\ Len(top_results) = Min(settings.top_k, Len(candidates))
    /\ \A i, j \in DOMAIN top_results :
         i < j => top_results[i].weighted_score >= top_results[j].weighted_score
    /\ \E f \in Picks(Len(top_results)) :
         /\ \A i \in DOMAIN top_results :
              /\ top_results[i].doc_id = candidates[f[i]].doc_id
              /\ top_results[i].weighted_score = ScoreOf(candidates[f[i]])
         /\ \A k \in DOMAIN candidates :
              (\A i \in DOMAIN top_results : f[i] # k) =>
                \A i \in DOMAIN top_results :
                  ScoreOf(candidates[k]) <= top_results[i].weighted_score

\* two candidates, the second scoring higher, and room for one result only
C6_Witness ==
  /\ printed
  /\ Len(candidates) = 2
  /\ settings.top_k = 1
  /\ ScoreOf(candidates[2]) > ScoreOf(candidates[1])
  /\ Len(top_results) = 1

\* result r is the result of candidate c under the configured multipliers
IsResultOf(r, c) ==
  /\ r.doc_id = c.doc_id
  /\ r.tier = c.tier
  /\ r.similarity = c.raw_sim
  /\ r.multiplier = settings.tier_multipliers[c.tier]
  /\ r.weighted_score = c.raw_sim * settings.tier_multipliers[c.tier]

\* C7: each candidate yields exactly one result, which keeps its doc_id and
\* tier, with similarity = raw_sim, multiplier = tier_multipliers[tier] and
\* weighted_score = similarity * multiplier; before truncation the results are
\* one per candidate and no others (in candidate order until they are sorted).
C7_OneResultPerCandidate ==
  /\ pc = "scoring" =>
       /\ Len(results) <= Len(candidates)
       /\ \A i \in DOMAIN results : IsResultOf(results[i], candidates[i])
  /\ printed =>
       /\ Len(results) = Len(candidates)
       /\ \E f \in Picks(Len(results)) :
            \A i \in DOMAIN results : IsResultOf(results[i], candidates[f[i]])

C7_Witness ==
  /\ printed
  /\ Len(results) = 2
  /\ results[1].tier # results[2].tier
  /\ results[1].similarity # results[2].similarity
  /\ results[1].multiplier # 1

\* C8: after write_embeddings_and_meta(docs, vectors), build_candidates returns
\* one candidate per document, in document order, candidate i with the doc_id
\* and tier of docs[i] and raw_sim the dot product of the query vector with the
\* row of vectors its metadata record's row_index names; when the number of
\* metadata records differs from the number of rows it raises ValueError and
\* returns no candidates.
C8_CandidatesAlignedByRow ==
  (p_pc = "cache_saved" /\ cache_read # NoCache) =>
    IF Len(p_docs) = Len(p_vectors)
      THEN /\ pc = "scoring"
           /\ err = NoErr
           /\ Len(candidates) = Len(p_docs)
           /\ \A i \in DOMAIN candidates :
                /\ candidates[i].doc_id = DictGet(p_docs[i], "doc_id")
                /\ candidates[i].tier = DictGet(p_docs[i], "tier")
                /\ doc_meta.data[i].row_index = i - 1
                /\ candidates[i].raw_sim = Dot(q_vec, p_vectors[doc_meta.data[i].row_index + 1])
      ELSE /\ pc = "aborted"
           /\ err.type = "ValueError"
           /\ candidates = <<>>

C8_Witness ==
  /\ p_pc = "cache_saved"
  /\ pc = "scoring"
  /\ Len(candidates) = 2
  /\ candidates[1].raw_sim # candidates[2].raw_sim
  /\ candidates[1].doc_id # candidates[2].doc_id

\* the candidates whose tier the config has no multiplier for
UnknownTier == {i \in DOMAIN candidates : candidates[i].tier \notin DOMAIN settings.tier_multipliers}

\* C9: if any candidate's tier is not a key of tier_multipliers, the run is
\* aborted by a ValueError naming the tier, and no results are ranked or
\* printed and no log is written, wherever the candidate sits in the list.
C9_UnknownTierAborts ==
  UnknownTier # {} =>
    /\ pc \in {"scoring", "aborted"}
    /\ ~printed
    /\ top_results = <<>>
    /\ ~log_file.exists
    /\ \A i \in UnknownTier : Len(results) < i
    /\ pc = "aborted" =>
         /\ err.type = "ValueError"
         /\ err.tier \notin DOMAIN settings.tier_multipliers
         /\ Len(results) + 1 \in UnknownTier
         /\ err.tier = candidates[Len(results) + 1].tier

\* the offending candidate comes second: the first one was already scored
C9_Witness ==
  /\ pc = "aborted"
  /\ err.type = "ValueError"
  /\ err.tier = "T3"
  /\ Len(results) = 1
  /\ UnknownTier = {2}

\* C10: when data/embeddings_manifest.json exists but has no
\* source_manifest_hash (key absent, null or empty string), verification
\* raises ValueError without computing the current manifest hash, and the run
\* writes no log.
C10_MissingHashAborts ==
  /\ (pc # "idle" /\ embeddings_manifest.exists /\ embeddings_manifest.data.kind \in {"absent", "null", "empty"})
       => ~log_file.exists
  /\ (embedding_info.loaded /\ embedding_info.source_manifest_hash.kind \in {"absent", "null", "empty"}) =>
       /\ pc = "aborted"
       /\ err.type = "ValueError"
       /\ err.what = "Embedding manifest missing 'source_manifest_hash'."
       /\ ~verified.computed
       /\ verified.current = NullHash

C10_Witness ==
  /\ pc = "aborted"
  /\ embedding_info.loaded
  /\ embedding_info.source_manifest_hash.kind = "empty"
  /\ err.type = "ValueError"
  /\ printed
  /\ ManifestInUse.exists

====
